---- MODULE Spec2Model ----
(***************************************************************************)
(* Fish Time Pro (src/fishTimePro.js): a status-bar extension that shows   *)
(* the salary earned today.  The module models                             *)
(*   - the calendar helpers (parseICSForMonth, calcWorkingDays,            *)
(*     calcNextRestDay),                                                   *)
(*   - the pay computation of updateStatusBar and updateAmountText,        *)
(*   - the extension at run time: the two interval timers, the focus and   *)
(*     configuration listeners, the calendar cache and the asynchronous    *)
(*     calendar fetch inside updateStatusBar.                              *)
(*                                                                         *)
(* Conventions.  A Date is a calendar day [y, m, d] plus a minute of the   *)
(* day; the clock is read in whole minutes (the code compares Dates in     *)
(* milliseconds, the work boundaries are whole minutes).  Amounts are      *)
(* exact fractions [k |-> "fin", n, d] in lowest terms, or the JavaScript  *)
(* values Infinity, -Infinity and NaN ("inf", "ninf", "nan").  The ICS     *)
(* text is the set of its VEVENT blocks; the empty text is {}.             *)
(***************************************************************************)
EXTENDS Integers, FiniteSets, Sequences, Bags, TLC

VARIABLES
    cfg,            \* the fishTime configuration getConfig() reads
    nowDate,        \* the wall clock: calendar day
    nowMin,         \* the wall clock: minute of the day
    ics,            \* the calendar text the remote server holds
    agg,            \* last result of calcWorkingDays
    nextRest,       \* last result of calcNextRestDay
    sbOut,          \* what the last updateStatusBar computed (tooltip side)
    amtOut,         \* what the last updateAmountText computed (status text)
    lastContext,    \* module variable lastContext
    holidayCache,   \* module variable holidayCache
    inflight,       \* bag of the executions of updateStatusBar suspended at the fetch
    timerTooltip,   \* module variable timerTooltip (handle, 0 = null)
    timerAmount,    \* module variable timerAmount (handle, 0 = null)
    scheduled,      \* the host's live interval timers
    isFocused,      \* module variable isFocused
    lastEvent       \* the callback that ran last

vars == <<cfg, nowDate, nowMin, ics, agg, nextRest, sbOut, amtOut, lastContext,
          holidayCache, inflight, timerTooltip, timerAmount, scheduled,
          isFocused, lastEvent>>

----------------------------------------------------------------------------
(* Bounds of the model.                                                    *)

\* at most this many VEVENT blocks in the calendar text
MaxEvents == 2
\* at most this many executions of updateStatusBar suspended at once
MaxInflight == 2
\* the run-time clock covers days 0..MaxDay after the start day
MaxDay == 1

----------------------------------------------------------------------------
(* JavaScript Date arithmetic (proleptic Gregorian calendar).              *)

MinutesPerDay == 24 * 60

IsLeap(y) == (y % 4 = 0 /\ y % 100 # 0) \/ y % 400 = 0

\* new Date(year, month, 0).getDate(), month 1..12
DaysInMonth(y, m) ==
    IF m = 2 THEN (IF IsLeap(y) THEN 29 ELSE 28)
    ELSE IF m \in {4, 6, 9, 11} THEN 30 ELSE 31

\* days since 1970-01-01 of the civil date y-m-d
DayNumber(date) ==
    LET yy  == IF date.m <= 2 THEN date.y - 1 ELSE date.y
        era == yy \div 400
        yoe == yy - era * 400
        mp  == IF date.m > 2 THEN date.m - 3 ELSE date.m + 9
        doy == (153 * mp + 2) \div 5 + date.d - 1
        doe == yoe * 365 + yoe \div 4 - yoe \div 100 + doy
    IN  era * 146097 + doe - 719468

\* Date.getDay(): 0 = Sunday .. 6 = Saturday
GetDay(date) == (DayNumber(date) + 4) % 7

\* dow === 0 ? 7 : dow
DowHuman(date) == IF GetDay(date) = 0 THEN 7 ELSE GetDay(date)

\* checkDate.setDate(checkDate.getDate() + 1)
NextDate(date) ==
    IF date.d < DaysInMonth(date.y, date.m)
    THEN [date EXCEPT !.d = date.d + 1]
    ELSE IF date.m < 12
    THEN [y |-> date.y, m |-> date.m + 1, d |-> 1]
    ELSE [y |-> date.y + 1, m |-> 1, d |-> 1]

\* the civil date of a day number (the inverse of DayNumber)
CivilFromDays(days) ==
    LET z   == days + 719468
        era == z \div 146097
        doe == z - era * 146097
        yoe == (doe - doe \div 1460 + doe \div 36524 - doe \div 146096) \div 365
        doy == doe - (365 * yoe + yoe \div 4 - yoe \div 100)
        mp  == (5 * doy + 2) \div 153
        mm  == IF mp < 10 THEN mp + 3 ELSE mp - 9
    IN  [y |-> yoe + era * 400 + (IF mm <= 2 THEN 1 ELSE 0),
         m |-> mm,
         d |-> doy - (153 * mp + 2) \div 5 + 1]

\* the date k days after date (k may be negative)
AddDays(date, k) == CivilFromDays(DayNumber(date) + k)

\* a Date as minutes since the epoch
Instant(date, minute) == DayNumber(date) * MinutesPerDay + minute

----------------------------------------------------------------------------
(* parseICSForMonth, on the calendar text as the set of its events.  An    *)
(* event is [valueDate, startDate, compensate]: the date of its            *)
(* DTSTART;VALUE=DATE line, the date of its DTSTART line (NoDate when the  *)
(* line is absent) and whether its SUMMARY holds a compensation keyword.   *)

NoDate == [y |-> 0, m |-> 0, d |-> 0]

ParseICSForMonth(icsText, year, month) ==
    [holidays |-> {e.valueDate.d : e \in {x \in icsText :
                        /\ x.valueDate # NoDate
                        /\ x.valueDate.y = year
                        /\ x.valueDate.m = month}},
     workdays |-> {e.startDate.d : e \in {x \in icsText :
                        /\ x.startDate # NoDate
                        /\ x.startDate.y = year
                        /\ x.startDate.m = month
                        /\ x.compensate}}]

----------------------------------------------------------------------------
(* calcWorkingDays.                                                        *)

\* new Set(restDaysConfig.map(parseInt).filter(n => n >= 1 && n <= 7))
RestSet(restDaysConfig) == {n \in restDaysConfig : n >= 1 /\ n <= 7}

\* lines 362-381 with the workday test removed: a plausible slip
IsWorkingDayNoOverride(year, month, day, restDaysConfig, holidays, workdays) ==
    IF day \in holidays THEN FALSE
    ELSE IF DowHuman([y |-> year, m |-> month, d |-> day]) \in RestSet(restDaysConfig)
    THEN FALSE
    ELSE TRUE

\* the classification of one day, lines 357-381
IsWorkingDay(year, month, day, restDaysConfig, holidays, workdays) ==
    IF day \in workdays THEN TRUE
    ELSE IF day \in holidays THEN FALSE
    ELSE IF DowHuman([y |-> year, m |-> month, d |-> day]) \in RestSet(restDaysConfig)
    THEN FALSE
    ELSE TRUE

\* the loop body with isTodayHoliday = true left out of the holiday branch: a
\* plausible slip
CalcStepHolidayUnflagged(acc, year, month, day, currentDay, restDaysConfig, holidays, workdays) ==
    IF IsWorkingDay(year, month, day, restDaysConfig, holidays, workdays)
    THEN [acc EXCEPT
            !.totalWorkingDays = @ + 1,
            !.workedDays = IF day <= currentDay THEN @ + 1 ELSE @,
            !.isTodayWorkingDay = IF day = currentDay THEN TRUE ELSE @]
    ELSE IF day \in holidays /\ day <= currentDay
    THEN [acc EXCEPT
            !.workedDays = @ + 1,
            !.isTodayWorkingDay = IF day = currentDay THEN TRUE ELSE @]
    ELSE acc

\* one iteration of the loop body, lines 383-394, on the accumulators
CalcStep(acc, year, month, day, currentDay, restDaysConfig, holidays, workdays) ==
    IF IsWorkingDay(year, month, day, restDaysConfig, holidays, workdays)
    THEN [acc EXCEPT
            !.totalWorkingDays = @ + 1,
            !.workedDays = IF day <= currentDay THEN @ + 1 ELSE @,
            !.isTodayWorkingDay = IF day = currentDay THEN TRUE ELSE @]
    ELSE IF day \in holidays /\ day <= currentDay
    THEN [acc EXCEPT
            !.workedDays = @ + 1,
            !.isTodayHoliday = IF day = currentDay THEN TRUE ELSE @,
            !.isTodayWorkingDay = IF day = currentDay THEN TRUE ELSE @]
    ELSE acc

\* calcWorkingDays(year, month, restDaysConfig, holidays, workdays); currentDay is
\* new Date().getDate(), read inside the function.  loop[day] is the value of the
\* accumulators after the iteration for day.
CalcWorkingDays(year, month, restDaysConfig, holidays, workdays, currentDay) ==
    LET loop[day \in 0..DaysInMonth(year, month)] ==
            IF day = 0
            THEN [totalWorkingDays |-> 0, workedDays |-> 0,
                  isTodayWorkingDay |-> FALSE, isTodayHoliday |-> FALSE]
            ELSE CalcStep(loop[day - 1], year, month, day, currentDay,
                          restDaysConfig, holidays, workdays)
    IN  loop[DaysInMonth(year, month)]

----------------------------------------------------------------------------
(* calcNextRestDay.                                                        *)

\* for (let i = 0; i < 30; i++)
ScanDays == 30

\* lines 431-451 without the re-parse for another month: a plausible slip
IsRestDayAtNoReparse(checkDate, year, month, restDaysConfig, holidays, workdays, icsText) ==
    IF DowHuman(checkDate) \in RestSet(restDaysConfig)
    THEN checkDate.d \notin workdays
    ELSE checkDate.d \in holidays

\* whether the loop body finds checkDate a rest day, lines 422-451
IsRestDayAt(checkDate, year, month, restDaysConfig, holidays, workdays, icsText) ==
    LET other  == checkDate.m # month \/ checkDate.y # year
        parsed == ParseICSForMonth(icsText, checkDate.y, checkDate.m)
        currentMonthHolidays == IF other THEN parsed.holidays ELSE holidays
        currentMonthWorkdays == IF other THEN parsed.workdays ELSE workdays
    IN  IF DowHuman(checkDate) \in RestSet(restDaysConfig)
        THEN checkDate.d \notin currentMonthWorkdays
        ELSE checkDate.d \in currentMonthHolidays

\* one iteration of the loop of lines 421-461 on [checkDate, found]: nothing
\* after the break
ScanStep(p, year, month, restDaysConfig, holidays, workdays, icsText) ==
    IF p.found THEN p
    ELSE IF IsRestDayAt(p.checkDate, year, month, restDaysConfig, holidays,
                        workdays, icsText)
    THEN [p EXCEPT !.found = TRUE]
    ELSE [p EXCEPT !.checkDate = NextDate(@)]

\* lines 464-470.  checkDate keeps today's time of day, so
\* Math.ceil(diffTime / one day) is the difference of the two day numbers.
DiffDays(p, today) ==
    IF p.found THEN DayNumber(p.checkDate) - DayNumber(today) ELSE 0

\* calcNextRestDay(year, month, restDaysConfig, holidays, workdays, icsText); today is
\* new Date(), read inside the function.  scan[i] is the state after i iterations.
CalcNextRestDay(year, month, restDaysConfig, holidays, workdays, icsText, today) ==
    LET scan[i \in 0..ScanDays] ==
            IF i = 0
            THEN [checkDate |-> today, found |-> FALSE]
            ELSE ScanStep(scan[i - 1], year, month, restDaysConfig, holidays,
                          workdays, icsText)
    IN  DiffDays(scan[ScanDays], today)

----------------------------------------------------------------------------
(* JavaScript numbers: exact fractions, Infinity, -Infinity, NaN.          *)

RECURSIVE Gcd(_, _)
Gcd(a, b) == IF b = 0 THEN a ELSE Gcd(b, a % b)

Abs(a) == IF a < 0 THEN -a ELSE a

NaN == [k |-> "nan", n |-> 0, d |-> 1]
PosInf == [k |-> "inf", n |-> 0, d |-> 1]
NegInf == [k |-> "ninf", n |-> 0, d |-> 1]

\* the fraction a / b in lowest terms, b > 0
Frac(a, b) ==
    LET g == Gcd(Abs(a), b)
    IN  [k |-> "fin", n |-> a \div g, d |-> b \div g]

Zero == Frac(0, 1)
One == Frac(1, 1)

\* a / b on integers, as JavaScript divides
JsDiv(a, b) ==
    IF b = 0
    THEN (IF a = 0 THEN NaN ELSE IF a > 0 THEN PosInf ELSE NegInf)
    ELSE IF b > 0 THEN Frac(a, b) ELSE Frac(-a, -b)

\* x <= y on non-negative fractions, by continued-fraction expansion (no
\* cross product, so no 32-bit overflow in the model checker)
RECURSIVE FracLeq(_, _, _, _)
FracLeq(an, ad, bn, bd) ==
    LET qa == an \div ad
        qb == bn \div bd
        ra == an % ad
        rb == bn % bd
    IN  IF qa # qb THEN qa < qb
        ELSE IF ra = 0 THEN TRUE
        ELSE IF rb = 0 THEN FALSE
        ELSE FracLeq(bd, rb, ad, ra)

\* x <= y as JavaScript compares numbers (false when either is NaN)
NumLeq(x, y) ==
    IF x.k = "nan" \/ y.k = "nan" THEN FALSE
    ELSE IF x.k = "ninf" \/ y.k = "inf" THEN TRUE
    ELSE IF x.k = "inf" \/ y.k = "ninf" THEN FALSE
    ELSE IF x.n < 0 /\ y.n >= 0 THEN TRUE
    ELSE IF x.n >= 0 /\ y.n < 0 THEN FALSE
    ELSE IF x.n >= 0 THEN FracLeq(x.n, x.d, y.n, y.d)
    ELSE FracLeq(-y.n, y.d, -x.n, x.d)

\* the product of a finite, positive daily salary s = sn/sd and a ratio p/q in [0,1]
FracMul(s, r) ==
    LET g1 == Gcd(s.n, r.d)
        g2 == Gcd(r.n, s.d)
    IN  Frac((s.n \div g1) * (r.n \div g2), (s.d \div g2) * (r.d \div g1))

\* Math.max(0, Math.min(1, p / q)) for q > 0
Clamp01(p, q) ==
    IF p <= 0 THEN Zero ELSE IF p >= q THEN One ELSE Frac(p, q)

----------------------------------------------------------------------------
(* getConfig, parseHHMMToMinutes, setDateToMinutes.  An "HH:mm" setting is *)
(* the pair [h, m] of its two numbers.                                     *)

Max(a, b) == IF a >= b THEN a ELSE b

\* the pattern ([01]\d|2[0-3]):([0-5]\d), then h * 60 + min; else the default
ParseHHMMToMinutes(hhmm, defMinutes) ==
    IF hhmm.h \in 0..23 /\ hhmm.m \in 0..59
    THEN hhmm.h * 60 + hhmm.m
    ELSE defMinutes

\* setDateToMinutes(base, minutesFromMidnight)
SetDateToMinutes(baseDate, minutesFromMidnight) == Instant(baseDate, minutesFromMidnight)

\* the four boundaries of updateStatusBar, lines 487-496
Boundaries(c, baseDate) ==
    LET msMin == ParseHHMMToMinutes(c.morningStart, 9 * 60)
        meMin == ParseHHMMToMinutes(c.morningEnd, 12 * 60)
        asMin == ParseHHMMToMinutes(c.afternoonStart, 13 * 60)
        aeMin == ParseHHMMToMinutes(c.afternoonEnd, 18 * 60)
    IN  [morningStartDate   |-> SetDateToMinutes(baseDate, msMin),
         morningEndDate     |-> SetDateToMinutes(baseDate, Max(meMin, msMin)),
         afternoonStartDate |-> SetDateToMinutes(baseDate, Max(asMin, meMin)),
         afternoonEndDate   |-> SetDateToMinutes(baseDate, Max(aeMin, asMin))]

\* (morningEndDate - morningStartDate) + (afternoonEndDate - afternoonStartDate)
TotalWorkMs(b) ==
    (b.morningEndDate - b.morningStartDate) + (b.afternoonEndDate - b.afternoonStartDate)

----------------------------------------------------------------------------
(* The pay computation shared by updateStatusBar (lines 556-578) and       *)
(* updateAmountText (lines 673-684).                                       *)

\* the same chain with nothing counted during the lunch break: a plausible slip
PassedLunchZero(now, b) ==
    IF now < b.morningStartDate
    THEN [passedMs |-> 0, statusLabel |-> "BEFORE_WORK"]
    ELSE IF now >= b.morningStartDate /\ now <= b.morningEndDate
    THEN [passedMs |-> now - b.morningStartDate, statusLabel |-> "MORNING_WORKING"]
    ELSE IF now > b.morningEndDate /\ now < b.afternoonStartDate
    THEN [passedMs |-> 0, statusLabel |-> "LUNCH_BREAK"]
    ELSE IF now >= b.afternoonStartDate /\ now <= b.afternoonEndDate
    THEN [passedMs |-> (b.morningEndDate - b.morningStartDate)
                        + (now - b.afternoonStartDate),
          statusLabel |-> "AFTERNOON_WORKING"]
    ELSE [passedMs |-> TotalWorkMs(b), statusLabel |-> "OFF_WORK"]

\* the if-chain on now: the elapsed work time and the status label
Passed(now, b) ==
    IF now < b.morningStartDate
    THEN [passedMs |-> 0, statusLabel |-> "BEFORE_WORK"]
    ELSE IF now >= b.morningStartDate /\ now <= b.morningEndDate
    THEN [passedMs |-> now - b.morningStartDate, statusLabel |-> "MORNING_WORKING"]
    ELSE IF now > b.morningEndDate /\ now < b.afternoonStartDate
    THEN [passedMs |-> b.morningEndDate - b.morningStartDate,
          statusLabel |-> "LUNCH_BREAK"]
    ELSE IF now >= b.afternoonStartDate /\ now <= b.afternoonEndDate
    THEN [passedMs |-> (b.morningEndDate - b.morningStartDate)
                        + (now - b.afternoonStartDate),
          statusLabel |-> "AFTERNOON_WORKING"]
    ELSE [passedMs |-> TotalWorkMs(b), statusLabel |-> "OFF_WORK"]

\* a number that was not computed
NoNum == [k |-> "none", n |-> 0, d |-> 1]

\* updateStatusBar, lines 535-590: earned, statusLabel, dailySalary (and the
\* ratio, which only the working-day branch computes)
StatusBarPay(now, b, a, monthlySalary) ==
    LET totalWorkMs == TotalWorkMs(b)
    IN  IF \/ ~a.isTodayWorkingDay
           \/ a.totalWorkingDays <= 0
           \/ monthlySalary <= 0
           \/ totalWorkMs <= 0
        THEN IF a.isTodayHoliday
             THEN [earned |-> JsDiv(monthlySalary, a.totalWorkingDays),
                   ratio |-> NoNum,
                   statusLabel |-> "HOLIDAY_PAID",
                   dailySalary |-> JsDiv(monthlySalary, a.totalWorkingDays)]
             ELSE [earned |-> Zero,
                   ratio |-> NoNum,
                   statusLabel |->
                       IF ~a.isTodayWorkingDay THEN "REST_DAY"
                       ELSE IF a.totalWorkingDays <= 0 THEN "ZERO_WORKING_DAYS"
                       ELSE IF monthlySalary <= 0 THEN "NO_SALARY_CONFIGURED"
                       ELSE "INVALID_TIME_CONFIG",
                   dailySalary |->
                       IF monthlySalary > 0 /\ a.totalWorkingDays > 0
                       THEN JsDiv(monthlySalary, a.totalWorkingDays)
                       ELSE Zero]
        ELSE LET p == Passed(now, b)
                 dailySalary == JsDiv(monthlySalary, a.totalWorkingDays)
                 ratio == Clamp01(p.passedMs, totalWorkMs)
             IN  [earned |-> IF now > b.afternoonEndDate THEN dailySalary
                             ELSE FracMul(dailySalary, ratio),
                  ratio |-> ratio,
                  statusLabel |-> p.statusLabel,
                  dailySalary |-> dailySalary]

\* updateAmountText, lines 660-689, on a snapshot c
AmountPay(now, c) ==
    LET b == [morningStartDate |-> c.morningStartDate,
              morningEndDate |-> c.morningEndDate,
              afternoonStartDate |-> c.afternoonStartDate,
              afternoonEndDate |-> c.afternoonEndDate]
        totalWorkMs == TotalWorkMs(b)
    IN  IF c.isTodayHoliday
        THEN [earned |-> JsDiv(c.monthlySalary, c.totalWorkingDays), ratio |-> One]
        ELSE IF \/ ~c.isTodayWorkingDay
                \/ c.totalWorkingDays <= 0
                \/ c.monthlySalary <= 0
                \/ totalWorkMs <= 0
        THEN [earned |-> Zero, ratio |-> Zero]
        ELSE LET p == Passed(now, b)
                 dailySalary == JsDiv(c.monthlySalary, c.totalWorkingDays)
                 ratio == Clamp01(p.passedMs, totalWorkMs)
             IN  [earned |-> IF now > b.afternoonEndDate THEN dailySalary
                             ELSE FracMul(dailySalary, ratio),
                  ratio |-> ratio]

\* lastContext = null
NoContext ==
    [set |-> FALSE, morningStartDate |-> 0, morningEndDate |-> 0,
     afternoonStartDate |-> 0, afternoonEndDate |-> 0, totalWorkingDays |-> 0,
     isTodayWorkingDay |-> FALSE, isTodayHoliday |-> FALSE, monthlySalary |-> 0]

\* the snapshot updateStatusBar stores, lines 593-602
MakeContext(b, a, monthlySalary) ==
    [set |-> TRUE,
     morningStartDate |-> b.morningStartDate,
     morningEndDate |-> b.morningEndDate,
     afternoonStartDate |-> b.afternoonStartDate,
     afternoonEndDate |-> b.afternoonEndDate,
     totalWorkingDays |-> a.totalWorkingDays,
     isTodayWorkingDay |-> a.isTodayWorkingDay,
     isTodayHoliday |-> a.isTodayHoliday,
     monthlySalary |-> monthlySalary]

\* what updateStatusBar leaves behind: the snapshot, the aggregates and the
\* values the tooltip is built from
UpdateResult(now, b, a, pay, monthlySalary) ==
    [ctx |-> MakeContext(b, a, monthlySalary),
     agg |-> a,
     out |-> [set |-> TRUE, at |-> now, earned |-> pay.earned,
              ratio |-> pay.ratio, statusLabel |-> pay.statusLabel,
              dailySalary |-> pay.dailySalary, boundaries |-> b]]

\* lines 535-602 on the boundaries b and the aggregates a
UpdateFrom(now, b, a, monthlySalary) ==
    UpdateResult(now, b, a, StatusBarPay(now, b, a, monthlySalary), monthlySalary)

\* calcWorkingDays on the parsed calendar, line 531
AggregatesOf(year, month, restDaysConfig, parsed, currentDay) ==
    CalcWorkingDays(year, month, restDaysConfig, parsed.holidays, parsed.workdays,
                    currentDay)

\* updateStatusBar from line 527 on: what an execution that started at
\* (startDate, startMin) with configuration c computes from the calendar text
\* icsText when calcWorkingDays reads the day of the month currentDay
UpdateCompute(c, startDate, startMin, icsText, currentDay) ==
    UpdateFrom(Instant(startDate, startMin),
               Boundaries(c, startDate),
               AggregatesOf(startDate.y, startDate.m, c.restDays,
                            ParseICSForMonth(icsText, startDate.y, startDate.m),
                            currentDay),
               c.monthlySalary)

\* what updateAmountText shows at the instant now from the snapshot c
AmountShown(now, pay) ==
    [set |-> TRUE, at |-> now, earned |-> pay.earned, ratio |-> pay.ratio]

AmountOut(now, c) == AmountShown(now, AmountPay(now, c))

----------------------------------------------------------------------------
(* Values before anything ran.                                             *)

\* getConfig's defaults, lines 168-175
DefaultConfig ==
    [monthlySalary  |-> 20450,
     morningStart   |-> [h |-> 10, m |-> 0],
     morningEnd     |-> [h |-> 11, m |-> 30],
     afternoonStart |-> [h |-> 13, m |-> 30],
     afternoonEnd   |-> [h |-> 18, m |-> 0],
     restDays       |-> {6, 7}]

NoAgg ==
    [totalWorkingDays |-> -1, workedDays |-> -1,
     isTodayWorkingDay |-> FALSE, isTodayHoliday |-> FALSE]

NoBoundaries ==
    [morningStartDate |-> 0, morningEndDate |-> 0,
     afternoonStartDate |-> 0, afternoonEndDate |-> 0]

NoOut ==
    [set |-> FALSE, at |-> 0, earned |-> NoNum, ratio |-> NoNum,
     statusLabel |-> "", dailySalary |-> NoNum, boundaries |-> NoBoundaries]

NoAmount == [set |-> FALSE, at |-> 0, earned |-> NoNum, ratio |-> NoNum]

\* let holidayCache = { text: '', fetchedAt: 0 }
EmptyCache == [text |-> {}, fetchedAt |-> 0]

\* the part of the state a specification of the pure functions leaves alone
RuntimeIdle ==
    /\ lastContext = NoContext
    /\ holidayCache = EmptyCache
    /\ inflight = EmptyBag
    /\ timerTooltip = 0
    /\ timerAmount = 0
    /\ scheduled = {}
    /\ isFocused = TRUE

runtimeVars ==
    <<lastContext, holidayCache, inflight, timerTooltip, timerAmount,
      scheduled, isFocused>>

----------------------------------------------------------------------------
(* Calendar inputs.                                                        *)

HolidayEvent(date) == [valueDate |-> date, startDate |-> NoDate, compensate |-> FALSE]
WorkdayEvent(date) == [valueDate |-> NoDate, startDate |-> date, compensate |-> TRUE]

\* the months today is drawn from: a February of a common and of a leap year,
\* and a December (the scan of calcNextRestDay leaves the year)
CalcMonths ==
    {[y |-> 2026, m |-> 2], [y |-> 2028, m |-> 2], [y |-> 2026, m |-> 12]}

\* today is one of the first seven days of the month (every weekday) or one of
\* its last two
CalcDates ==
    UNION {{[y |-> ym.y, m |-> ym.m, d |-> dd] :
                dd \in (1..7) \cup {DaysInMonth(ym.y, ym.m) - 1, DaysInMonth(ym.y, ym.m)}}
           : ym \in CalcMonths}

\* the 5_restDays settings tried: the default, none, every day, values out of
\* range around Sunday, and alternate weekdays
RestDayConfigs == {{6, 7}, {}, 1..7, {0, 7, 8}, {1, 3, 5}}

\* calendar events lie this many days from today: yesterday, today, tomorrow and
\* the two days around the end of the 30-day scan
EventOffsets == {-1, 0, 1, 29, 30}

CandidateEvents(today) ==
    UNION {{HolidayEvent(AddDays(today, o)), WorkdayEvent(AddDays(today, o))}
           : o \in EventOffsets}

CalendarTexts(today) ==
    {t \in SUBSET CandidateEvents(today) : Cardinality(t) <= MaxEvents}

----------------------------------------------------------------------------
(* SpecCalc: calcWorkingDays and calcNextRestDay applied to drawn inputs.  *)

InitCalc ==
    /\ cfg \in {[DefaultConfig EXCEPT !.restDays = r] : r \in RestDayConfigs}
    /\ nowDate \in CalcDates
    /\ nowMin = 0
    /\ ics \in CalendarTexts(nowDate)
    /\ agg = NoAgg
    /\ nextRest = -1
    /\ sbOut = NoOut
    /\ amtOut = NoAmount
    /\ RuntimeIdle
    /\ lastEvent = "none"

\* const { holidays, workdays } = parseICSForMonth(icsText, year, month), then
\* calcWorkingDays(year, month, cfg.restDays, holidays, workdays)
DoCalcWorkingDays ==
    /\ agg = NoAgg
    /\ agg' = AggregatesOf(nowDate.y, nowDate.m, cfg.restDays,
                            ParseICSForMonth(ics, nowDate.y, nowDate.m), nowDate.d)
    /\ lastEvent' = "calcWorkingDays"
    /\ UNCHANGED <<cfg, nowDate, nowMin, ics, nextRest, sbOut, amtOut>>
    /\ UNCHANGED runtimeVars

\* calcNextRestDay(year, month, cfg.restDays, holidays, workdays, icsText)
DoCalcNextRestDay ==
    /\ agg # NoAgg
    /\ nextRest = -1
    /\ \E parsed \in {ParseICSForMonth(ics, nowDate.y, nowDate.m)} :
          nextRest' = CalcNextRestDay(nowDate.y, nowDate.m, cfg.restDays,
                                      parsed.holidays, parsed.workdays, ics, nowDate)
    /\ lastEvent' = "calcNextRestDay"
    /\ UNCHANGED <<cfg, nowDate, nowMin, ics, agg, sbOut, amtOut>>
    /\ UNCHANGED runtimeVars

NextCalc == DoCalcWorkingDays \/ DoCalcNextRestDay

SpecCalc == InitCalc /\ [][NextCalc]_vars

\* the weekday of a date, 1 = Monday .. 7 = Sunday (1970-01-01 was a Thursday)
IsoWeekday(date) == ((DayNumber(date) + 3) % 7) + 1

CurHolidays == ParseICSForMonth(ics, nowDate.y, nowDate.m).holidays
CurWorkdays == ParseICSForMonth(ics, nowDate.y, nowDate.m).workdays
CurMonthDays == 1..DaysInMonth(nowDate.y, nowDate.m)

\* the rule of the claim for day dd of the current month, given its holidays
\* and compensated workdays
WorkingByRuleIn(dd, holidays, workdays) ==
    \/ dd \in workdays
    \/ /\ dd \notin holidays
       /\ IsoWeekday([y |-> nowDate.y, m |-> nowDate.m, d |-> dd]) \notin RestSet(cfg.restDays)

WorkingByRule(dd) == WorkingByRuleIn(dd, CurHolidays, CurWorkdays)

ClassifiedByRule(holidays, workdays) ==
    /\ \A dd \in CurMonthDays :
          IsWorkingDay(nowDate.y, nowDate.m, dd, cfg.restDays, holidays, workdays)
              <=> WorkingByRuleIn(dd, holidays, workdays)
    /\ agg.totalWorkingDays =
          Cardinality({dd \in CurMonthDays : WorkingByRuleIn(dd, holidays, workdays)})

\* C2: calcWorkingDays classifies day d as working iff d is a compensated
\* workday, or else d is no holiday and its weekday (1 = Monday .. 7 = Sunday) is
\* no rest day; totalWorkingDays counts the days so classified over the whole
\* month, days after today included.
C2_Classification ==
    agg # NoAgg => ClassifiedByRule(CurHolidays, CurWorkdays)

\* a compensated workday on a rest day counted, with working days after today
C2_Witness ==
    /\ agg # NoAgg
    /\ \E dd \in CurWorkdays :
          /\ IsoWeekday([y |-> nowDate.y, m |-> nowDate.m, d |-> dd]) \in RestSet(cfg.restDays)
          /\ dd > nowDate.d
    /\ CurHolidays # {}
    /\ agg.totalWorkingDays > agg.workedDays

\* C3: every aggregate satisfies 0 <= workedDaysSoFar <= totalWorkingDays.
C3_WorkedWithinTotal ==
    agg # NoAgg => (0 <= agg.workedDays /\ agg.workedDays <= agg.totalWorkingDays)

\* the rule of the claim for a date: a rest day of its own month
RestByRule(date) ==
    LET p == ParseICSForMonth(ics, date.y, date.m)
    IN  \/ (IsoWeekday(date) \in RestSet(cfg.restDays) /\ date.d \notin p.workdays)
        \/ (IsoWeekday(date) \notin RestSet(cfg.restDays) /\ date.d \in p.holidays)

RestOffsets == {k \in 0..29 : RestByRule(AddDays(nowDate, k))}

\* result is the least member of offsets, or 0 when there is none
LeastOrZero(result, offsets) ==
    IF offsets = {} THEN result = 0
    ELSE /\ result \in offsets
         /\ \A k \in offsets : result <= k

\* C7: calcNextRestDay looks at the 30 days from today on and returns the
\* smallest offset k with today+k a rest day (its weekday a rest day and the day
\* no compensated workday of its month, or its weekday no rest day and the day a
\* holiday of its month), and 0 when none of the 30 days is one.
C7_NextRestDay ==
    nextRest # -1 => LeastOrZero(nextRest, RestOffsets)

\* the scan left today's month and stopped at a holiday on a weekday there
C7_Witness ==
    /\ nextRest > 1
    /\ AddDays(nowDate, nextRest).m # nowDate.m
    /\ IsoWeekday(AddDays(nowDate, nextRest)) \notin RestSet(cfg.restDays)

----------------------------------------------------------------------------
(* SpecPay: updateStatusBar and updateAmountText on drawn configurations,  *)
(* with a fresh calendar cache (no fetch), as the clock moves through one  *)
(* day.                                                                    *)

\* the "HH:mm" settings tried: 06:00, 12:00 and the unparseable 24:00, which
\* parseHHMMToMinutes replaces by the default of the setting
PayTimeStrings == {[h |-> 6, m |-> 0], [h |-> 12, m |-> 0], [h |-> 24, m |-> 0]}

PaySalaries == {0, 20450}

PayRestDays == {{6, 7}, 1..7}

\* Wednesday 2026-11-04
PayDate == [y |-> 2026, m |-> 11, d |-> 4]

\* the calendar says nothing of today, or makes it a holiday, or a compensated
\* workday
PayCalendars == {{}, {HolidayEvent(PayDate)}, {WorkdayEvent(PayDate)}}

\* the minutes of the day at which the clock is read: midnight, boundaries the
\* settings can give (06:00, 12:00, 18:00), minutes between them (two of them in
\* the default lunch break 12:00-13:00) and the last minute of the day
NowPoints == {0, 360, 500, 720, 740, 760, 1080, 1439}

PayConfigs ==
    {[monthlySalary |-> sal, morningStart |-> t1, morningEnd |-> t2,
      afternoonStart |-> t3, afternoonEnd |-> t4, restDays |-> r] :
        sal \in PaySalaries, t1 \in PayTimeStrings, t2 \in PayTimeStrings,
        t3 \in PayTimeStrings, t4 \in PayTimeStrings, r \in PayRestDays}

InitPay ==
    /\ cfg \in PayConfigs
    /\ nowDate = PayDate
    /\ nowMin = 0
    /\ ics \in PayCalendars
    /\ agg = NoAgg
    /\ nextRest = -1
    /\ sbOut = NoOut
    /\ amtOut = NoAmount
    /\ RuntimeIdle
    /\ lastEvent = "none"

\* the clock stays within the minute or moves to the next point of the day
LaterPoints(t) ==
    {t} \cup {p \in NowPoints : p > t /\ \A q \in NowPoints : q > t => p <= q}

\* both timers fire: updateTooltip runs updateStatusBar (the cache is fresh, so
\* it runs to its end without waiting), then updateAmount runs updateAmountText
PayTick ==
    \E t \in LaterPoints(nowMin) :
      \E r \in {UpdateCompute(cfg, nowDate, t, ics, nowDate.d)} :
        /\ nowMin' = t
        /\ agg' = r.agg
        /\ sbOut' = r.out
        /\ lastContext' = r.ctx
        /\ amtOut' = AmountOut(Instant(nowDate, t), r.ctx)
        /\ lastEvent' = "tick"
        /\ UNCHANGED <<cfg, nowDate, ics, nextRest, holidayCache, inflight,
                       timerTooltip, timerAmount, scheduled, isFocused>>

\* the amount timer alone fires: updateAmountText on the stored snapshot
PayAmountTick ==
    \E t \in LaterPoints(nowMin) :
        /\ lastContext.set
        /\ nowMin' = t
        /\ amtOut' = AmountOut(Instant(nowDate, t), lastContext)
        /\ lastEvent' = "amountTick"
        /\ UNCHANGED <<cfg, nowDate, ics, agg, nextRest, sbOut, lastContext,
                       holidayCache, inflight, timerTooltip, timerAmount,
                       scheduled, isFocused>>

NextPay == PayTick \/ PayAmountTick

SpecPay == InitPay /\ [][NextPay]_vars

\* monthlySalary / totalWorkingDays for the aggregates of the last update
DailySalaryNow == JsDiv(cfg.monthlySalary, agg.totalWorkingDays)

\* x is a number in [0, dailySalary] (the upper end is read only when the
\* month has a working day, so that the quotient is defined)
InPayRange(x) ==
    /\ NumLeq(Zero, x)
    /\ agg.totalWorkingDays > 0 => NumLeq(x, DailySalaryNow)

\* C1: ratioToday is in [0,1] and earnedToday in [0, dailySalary], in the full
\* update and in the amount update.
C1_RatioAndEarnedInRange ==
    /\ sbOut.set =>
          /\ InPayRange(sbOut.earned)
          /\ sbOut.ratio # NoNum => (NumLeq(Zero, sbOut.ratio) /\ NumLeq(sbOut.ratio, One))
    /\ amtOut.set =>
          /\ InPayRange(amtOut.earned)
          /\ NumLeq(Zero, amtOut.ratio)
          /\ NumLeq(amtOut.ratio, One)

\* C4: whenever today is in the month's holidays, isTodayHoliday is true and
\* both updates report the whole daily salary, the status HOLIDAY_PAID and the
\* ratio 1, at every time of day.
C4_HolidayPaid ==
    (nowDate.d \in CurHolidays /\ sbOut.set /\ amtOut.set) =>
        /\ agg.isTodayHoliday
        /\ sbOut.statusLabel = "HOLIDAY_PAID"
        /\ sbOut.earned = DailySalaryNow
        /\ amtOut.earned = DailySalaryNow
        /\ amtOut.ratio = One

\* the status updateStatusBar would show at the instant of the last amount update
AmountStatus ==
    Passed(amtOut.at, [morningStartDate |-> lastContext.morningStartDate,
                       morningEndDate |-> lastContext.morningEndDate,
                       afternoonStartDate |-> lastContext.afternoonStartDate,
                       afternoonEndDate |-> lastContext.afternoonEndDate]).statusLabel

\* C5: on a working day, with the configuration and the aggregates fixed,
\* earnedToday never decreases from one update to a later one, and it does not
\* change from one update to the next while the status is LUNCH_BREAK.
C5_EarnedMonotone ==
    [][WorkingByRule(nowDate.d) =>
        /\ (sbOut.set /\ sbOut'.set) =>
              /\ NumLeq(sbOut.earned, sbOut'.earned)
              /\ (sbOut.statusLabel = "LUNCH_BREAK" /\ sbOut'.statusLabel = "LUNCH_BREAK")
                    => sbOut'.earned = sbOut.earned
        /\ (amtOut.set /\ amtOut'.set) =>
              /\ NumLeq(amtOut.earned, amtOut'.earned)
              /\ (AmountStatus = "LUNCH_BREAK" /\ AmountStatus' = "LUNCH_BREAK")
                    => amtOut'.earned = amtOut.earned
      ]_vars

\* a working day: the tooltip was last computed in the lunch break with part of
\* the pay earned, and the amount has since reached the whole daily salary
C5_Witness ==
    /\ WorkingByRule(nowDate.d)
    /\ sbOut.set
    /\ sbOut.statusLabel = "LUNCH_BREAK"
    /\ NumLeq(sbOut.earned, Zero) = FALSE
    /\ amtOut.set
    /\ amtOut.at > sbOut.at
    /\ amtOut.earned = DailySalaryNow
    /\ amtOut.earned # sbOut.earned

\* C6: the boundaries the update derives are ordered: morningEnd >= morningStart,
\* afternoonStart >= morningEnd, afternoonEnd >= afternoonStart.
C6_BoundariesOrdered ==
    sbOut.set =>
        /\ sbOut.boundaries.morningEndDate >= sbOut.boundaries.morningStartDate
        /\ sbOut.boundaries.afternoonStartDate >= sbOut.boundaries.morningEndDate
        /\ sbOut.boundaries.afternoonEndDate >= sbOut.boundaries.afternoonStartDate

----------------------------------------------------------------------------
(* Spec: the extension at run time, from the end of activate() on.         *)

\* ICS_CACHE_TTL, in minutes
IcsCacheTtl == 24 * 60

\* TIMER_MS, lines 38-43
TimerMs(task, focused) ==
    IF task = "tooltip" THEN (IF focused THEN 1000 ELSE 5000) ELSE 1000

\* the day the extension is activated: Wednesday 2026-11-04
RunStartDate == [y |-> 2026, m |-> 11, d |-> 4]

\* the clock is read at 12:00, in the default lunch break
RunClockPoints == {720}

\* the configurations the user switches between
RunConfigs == {DefaultConfig, [DefaultConfig EXCEPT !.monthlySalary = 10000]}

\* the calendar the server holds: the second day after the start day is a holiday
RunServerICS == {HolidayEvent(AddDays(RunStartDate, 2))}

Now == Instant(nowDate, nowMin)

\* the cache test of line 506
CacheValid(nowMs) ==
    /\ holidayCache.text # {}
    /\ holidayCache.fetchedAt # 0
    /\ (nowMs - holidayCache.fetchedAt) < IcsCacheTtl

\* setInterval returns a handle that is none of those in use: the two handles
\* one restartTimers gets are the least two positive ones not in used
NewHandles(used) ==
    LET free(n) == n \notin used
        first == CHOOSE n \in 1..(Cardinality(used) + 2) :
                    free(n) /\ \A k \in 1..(n - 1) : ~free(k)
        second == CHOOSE n \in 1..(Cardinality(used) + 2) :
                    free(n) /\ n # first /\ \A k \in 1..(n - 1) : free(k) => k = first
    IN  [tooltip |-> first, amount |-> second]

\* restartTimers with the two clearInterval calls left out: a plausible slip
RestartTimersNoClear(focused) ==
    \E r \in {NewHandles({tm.id : tm \in scheduled} \cup {timerTooltip, timerAmount})} :
        /\ scheduled' = scheduled \cup
                {[id |-> r.tooltip, task |-> "tooltip", ms |-> TimerMs("tooltip", focused)],
                 [id |-> r.amount, task |-> "amount", ms |-> TimerMs("amount", focused)]}
        /\ timerTooltip' = r.tooltip
        /\ timerAmount' = r.amount

\* restartTimers, lines 50-63, when isFocused is focused
RestartTimers(focused) ==
    \E r \in {NewHandles({tm.id : tm \in scheduled} \cup {timerTooltip, timerAmount})} :
        /\ scheduled' =
              {tm \in scheduled :
                  /\ ~(timerTooltip # 0 /\ tm.id = timerTooltip)
                  /\ ~(timerAmount # 0 /\ tm.id = timerAmount)}
              \cup
              {[id |-> r.tooltip, task |-> "tooltip", ms |-> TimerMs("tooltip", focused)],
               [id |-> r.amount, task |-> "amount", ms |-> TimerMs("amount", focused)]}
        /\ timerTooltip' = r.tooltip
        /\ timerAmount' = r.amount

\* updateStatusBar up to its await, lines 478-521, called with configuration c:
\* with a fresh cache it runs to its end at once, else it is suspended at the
\* fetch, holding what it has read so far (now, cfg, nowMs)
StartUpdate(c) ==
    IF CacheValid(Now)
    THEN \E r \in {UpdateCompute(c, nowDate, nowMin, holidayCache.text, nowDate.d)} :
            /\ lastContext' = r.ctx
            /\ sbOut' = r.out
            /\ agg' = r.agg
            /\ inflight' = inflight
    ELSE /\ BagCardinality(inflight) < MaxInflight
         /\ inflight' = inflight (+) SetToBag({[cfg |-> c, startDate |-> nowDate,
                                                   startMin |-> nowMin]})
         /\ lastContext' = lastContext
         /\ UNCHANGED <<sbOut, agg>>

\* the rest of updateStatusBar when a failed fetch ends the update instead of
\* being caught: a plausible slip (no try/catch round the await)
FinishUpdateAbortOnEmpty(e, icsText) ==
    IF icsText = {}
    THEN UNCHANGED <<lastContext, sbOut, agg>>
    ELSE \E r \in {UpdateCompute(e.cfg, e.startDate, e.startMin, icsText, nowDate.d)} :
            /\ lastContext' = r.ctx
            /\ sbOut' = r.out
            /\ agg' = r.agg

\* the rest of updateStatusBar, lines 527-639, for the suspended execution e,
\* resumed with the calendar text icsText
FinishUpdate(e, icsText) ==
    \E r \in {UpdateCompute(e.cfg, e.startDate, e.startMin, icsText, nowDate.d)} :
        /\ lastContext' = r.ctx
        /\ sbOut' = r.out
        /\ agg' = r.agg

\* the state activate() leaves: the first updateTooltip() is suspended at the
\* fetch (the cache is empty), the first updateAmount() found no snapshot, and
\* restartTimers has scheduled both timers
Init ==
    /\ cfg = DefaultConfig
    /\ nowDate = RunStartDate
    /\ nowMin \in RunClockPoints
    /\ ics = RunServerICS
    /\ agg = NoAgg
    /\ nextRest = -1
    /\ sbOut = NoOut
    /\ amtOut = NoAmount
    /\ lastContext = NoContext
    /\ holidayCache = EmptyCache
    /\ inflight = SetToBag({[cfg |-> DefaultConfig, startDate |-> RunStartDate,
                              startMin |-> nowMin]})
    /\ isFocused = TRUE
    /\ scheduled = {[id |-> 1, task |-> "tooltip", ms |-> TimerMs("tooltip", TRUE)],
                    [id |-> 2, task |-> "amount", ms |-> TimerMs("amount", TRUE)]}
    /\ timerTooltip = 1
    /\ timerAmount = 2
    /\ lastEvent = "activate"

\* a tooltip interval timer fires: updateTooltip, lines 106-112
TooltipTimerFires ==
    /\ \E tm \in scheduled : tm.task = "tooltip"
    /\ StartUpdate(cfg)
    /\ lastEvent' = "tooltipTimer"
    /\ UNCHANGED <<cfg, nowDate, nowMin, ics, nextRest, amtOut, holidayCache,
                   timerTooltip, timerAmount, scheduled, isFocused>>

\* an amount interval timer fires: updateAmount, lines 113-119, 646-693
AmountTimerFires ==
    /\ \E tm \in scheduled : tm.task = "amount"
    /\ IF lastContext.set
       THEN /\ amtOut' = AmountOut(Now, lastContext)
            /\ lastEvent' = "amountTimer"
       ELSE /\ amtOut' = amtOut
            /\ lastEvent' = "amountSkip"
    /\ UNCHANGED <<cfg, nowDate, nowMin, ics, agg, nextRest, sbOut, lastContext,
                   holidayCache, inflight, timerTooltip, timerAmount, scheduled,
                   isFocused>>

\* onDidChangeWindowState, lines 127-130
WindowStateChange ==
    \E focused \in BOOLEAN :
        /\ isFocused' = focused
        /\ RestartTimers(focused)
        /\ lastEvent' = "focus"
        /\ UNCHANGED <<cfg, nowDate, nowMin, ics, agg, nextRest, sbOut, amtOut,
                       lastContext, holidayCache, inflight>>

\* onDidChangeConfiguration for a change of fishTime, lines 134-141:
\* lastContext = null; updateTooltip(); updateAmount()
ConfigChange ==
    \E c \in RunConfigs \ {cfg} :
        /\ cfg' = c
        /\ IF CacheValid(Now)
           THEN \E r \in {UpdateCompute(c, nowDate, nowMin, holidayCache.text, nowDate.d)} :
                    /\ lastContext' = r.ctx
                    /\ sbOut' = r.out
                    /\ agg' = r.agg
                    /\ inflight' = inflight
                    /\ amtOut' = AmountOut(Now, r.ctx)
           ELSE /\ BagCardinality(inflight) < MaxInflight
                /\ inflight' = inflight (+) SetToBag({[cfg |-> c, startDate |-> nowDate,
                                                          startMin |-> nowMin]})
                /\ lastContext' = NoContext
                /\ UNCHANGED <<sbOut, agg, amtOut>>
        /\ lastEvent' = "config"
        /\ UNCHANGED <<nowDate, nowMin, ics, nextRest, holidayCache, timerTooltip,
                       timerAmount, scheduled, isFocused>>

\* the fetch of a suspended execution answers 200 with the server's text:
\* lines 518, 527-639
FetchSucceeds ==
    \E e \in BagToSet(inflight) :
        /\ holidayCache' = [text |-> ics,
                            fetchedAt |-> Instant(e.startDate, e.startMin)]
        /\ FinishUpdate(e, ics)
        /\ inflight' = inflight (-) SetToBag({e})
        /\ lastEvent' = "fetchOk"
        /\ UNCHANGED <<cfg, nowDate, nowMin, ics, nextRest, amtOut, timerTooltip,
                       timerAmount, scheduled, isFocused>>

\* the fetch of a suspended execution fails (status not 200, transport error):
\* lines 522-525, 527-639
FetchFails ==
    \E e \in BagToSet(inflight) :
        /\ FinishUpdate(e, {})
        /\ inflight' = inflight (-) SetToBag({e})
        /\ lastEvent' = "fetchFail"
        /\ UNCHANGED <<cfg, nowDate, nowMin, ics, nextRest, amtOut, holidayCache,
                       timerTooltip, timerAmount, scheduled, isFocused>>

\* time passes: the clock reaches its next point, on the last point of a day the
\* first one of the next day
ClockAdvance ==
    /\ IF \E p \in RunClockPoints : p > nowMin
       THEN /\ nowMin' = CHOOSE p \in RunClockPoints :
                            p > nowMin /\ \A q \in RunClockPoints : q > nowMin => p <= q
            /\ nowDate' = nowDate
       ELSE /\ DayNumber(nowDate) - DayNumber(RunStartDate) < MaxDay
            /\ nowMin' = CHOOSE p \in RunClockPoints : \A q \in RunClockPoints : p <= q
            /\ nowDate' = NextDate(nowDate)
    /\ lastEvent' = "clock"
    /\ UNCHANGED <<cfg, ics, agg, nextRest, sbOut, amtOut, lastContext,
                   holidayCache, inflight, timerTooltip, timerAmount, scheduled,
                   isFocused>>

Next ==
    \/ TooltipTimerFires
    \/ AmountTimerFires
    \/ WindowStateChange
    \/ ConfigChange
    \/ FetchSucceeds
    \/ FetchFails
    \/ ClockAdvance

Spec == Init /\ [][Next]_vars

----------------------------------------------------------------------------
(* Properties of the run-time specification.                               *)

\* C8: no two executions of the low-frequency update (updateTooltip /
\* updateStatusBar) are in progress at once, also while one is suspended at the
\* calendar fetch and a timer, a focus change or a configuration change
\* triggers the next.  Violated: nothing keeps a second execution from starting
\* while the first awaits its fetch.
C8_NoSelfConcurrency == BagCardinality(inflight) <= 1

TimersOf(task) == {tm \in scheduled : tm.task = task}

\* exactly one timer per task is scheduled, and it is the one the handle names
OneTimerPerTask ==
    /\ TimersOf("tooltip") = {tm \in scheduled : tm.id = timerTooltip}
    /\ TimersOf("amount") = {tm \in scheduled : tm.id = timerAmount}
    /\ Cardinality(TimersOf("tooltip")) = 1
    /\ Cardinality(TimersOf("amount")) = 1

\* this step cancelled both old timers and scheduled a new one for each task
TimersRestarted ==
    /\ timerTooltip' # timerTooltip
    /\ timerAmount' # timerAmount
    /\ \A tm \in scheduled' : tm.id \notin {timerTooltip, timerAmount}
    /\ \E tm \in scheduled' : tm.id = timerTooltip' /\ tm.task = "tooltip"
    /\ \E tm \in scheduled' : tm.id = timerAmount' /\ tm.task = "amount"

CalendarsNow ==
    IF CacheValid(Now) THEN {holidayCache.text} ELSE {ics, {}}

\* updateStatusBar run from its start at this instant with the calendar text
\* icsText, and updateAmountText on the snapshot it leaves
FromScratch(icsText) ==
    AmountOut(Now, UpdateCompute(cfg, nowDate, nowMin, icsText, nowDate.d).ctx)

\* C10: at every tick of the amount timer, the earned amount and the ratio
\* computed from lastContext equal what a recomputation from scratch at the
\* same instant from the current configuration, calendar and date gives.
\* Violated: an update suspended at its fetch before a configuration change
\* stores a snapshot of the old configuration after it, and a snapshot outlives
\* midnight until the next low-frequency update.
C10_SnapshotEqualsFromScratch ==
    lastEvent = "amountTimer" =>
        \E icsText \in CalendarsNow :
            /\ amtOut.earned = FromScratch(icsText).earned
            /\ amtOut.ratio = FromScratch(icsText).ratio

\* the days of the month of date that are working days when the calendar is
\* empty: those whose weekday is no rest day
WorkingDaysNoCalendar(date, restDaysConfig) ==
    {dd \in 1..DaysInMonth(date.y, date.m) :
        IsoWeekday([y |-> date.y, m |-> date.m, d |-> dd]) \notin RestSet(restDaysConfig)}

\* the update of the suspended execution e ended in this step with an empty
\* calendar: aggregates by the rest days alone, snapshot stored, tooltip set
CompletedWithEmptyCalendar(e) ==
    /\ inflight' = inflight (-) SetToBag({e})
    /\ agg'.totalWorkingDays =
          Cardinality(WorkingDaysNoCalendar(e.startDate, e.cfg.restDays))
    /\ agg'.workedDays =
          Cardinality({dd \in WorkingDaysNoCalendar(e.startDate, e.cfg.restDays) :
                          dd <= nowDate.d})
    /\ ~agg'.isTodayHoliday
    /\ lastContext'.set
    /\ lastContext'.totalWorkingDays = agg'.totalWorkingDays
    /\ ~lastContext'.isTodayHoliday
    /\ lastContext'.monthlySalary = e.cfg.monthlySalary
    /\ sbOut'.set
    /\ sbOut'.at = Instant(e.startDate, e.startMin)

\* C11: when the calendar fetch of an update fails, the update does not abort:
\* it goes on with an empty calendar (no holidays, no compensated workdays),
\* computes the aggregates, stores the snapshot and sets the tooltip, and the
\* calendar cache stays as it was.
C11_FetchFailureEmptyCalendar ==
    [][lastEvent' = "fetchFail" =>
          /\ holidayCache' = holidayCache
          /\ \E e \in BagToSet(inflight) : CompletedWithEmptyCalendar(e)
      ]_vars

\* a fetch failed while the cache held the server's calendar with its holiday:
\* the update ended with every weekday of the month a working day
C11_Witness ==
    /\ lastEvent = "fetchFail"
    /\ holidayCache.text = ics
    /\ ParseICSForMonth(ics, nowDate.y, nowDate.m).holidays # {}
    /\ lastContext.set
    /\ sbOut.set
    /\ agg.totalWorkingDays = Cardinality(WorkingDaysNoCalendar(nowDate, cfg.restDays))

----------------------------------------------------------------------------
(* Further properties of the pay computation (SpecPay).                    *)

\* C12: updateStatusBar never reports the status ZERO_WORKING_DAYS for
\* aggregates of calcWorkingDays: in every update where totalWorkingDays is 0
\* the status is REST_DAY or HOLIDAY_PAID.
C12_NeverZeroWorkingDays ==
    sbOut.set =>
        /\ sbOut.statusLabel # "ZERO_WORKING_DAYS"
        /\ agg.totalWorkingDays = 0 =>
              sbOut.statusLabel \in {"REST_DAY", "HOLIDAY_PAID"}
        /\ sbOut.statusLabel \in
              {"HOLIDAY_PAID", "REST_DAY", "NO_SALARY_CONFIGURED",
               "INVALID_TIME_CONFIG", "BEFORE_WORK", "MORNING_WORKING",
               "LUNCH_BREAK", "AFTERNOON_WORKING", "OFF_WORK"}

\* an update in a month without a working day, on a holiday: the one case where
\* today counts as a working day while totalWorkingDays is 0
C12_Witness ==
    /\ sbOut.set
    /\ agg.totalWorkingDays = 0
    /\ agg.isTodayWorkingDay
    /\ nowDate.d \in CurHolidays
    /\ sbOut.statusLabel = "HOLIDAY_PAID"

\* C13: every division monthlySalary / totalWorkingDays of updateStatusBar and
\* updateAmountText has totalWorkingDays > 0, so that the earned amount is a
\* finite number, also on a holiday in a month without a working day.
\* Violated: the holiday branches divide with totalWorkingDays = 0.
C13_DivisionGuarded ==
    /\ (sbOut.set /\ agg.isTodayHoliday) => agg.totalWorkingDays > 0
    /\ sbOut.set => sbOut.earned.k = "fin"
    /\ (amtOut.set /\ lastContext.isTodayHoliday) => lastContext.totalWorkingDays > 0
    /\ amtOut.set => amtOut.earned.k = "fin"

====
